---- MODULE Spec2Model ----
(***************************************************************************)
(* Model of the QUIC download client (src/main.go): the `get` pipeline     *)
(*   stream -> bufio.Reader -> [rateLimitedReader] -> ProgressReader       *)
(*          -> io.Copy -> destination file                                 *)
(* together with the monitor goroutine started by StartMonitor, and the    *)
(* `ls` loop over a bufio.Scanner.                                         *)
(*                                                                         *)
(* Time is counted in ticks of 10 ms (Second == 100).  Payload bytes are   *)
(* numbered 1..n so that loss, duplication and reordering are visible.     *)
(***************************************************************************)
EXTENDS Integers, Sequences, FiniteSets, TLC

\* ------------------------------------------------------------------ bounds
MaxPayload == 3      \* most payload bytes the server sends after the size line
MaxTicks   == 2      \* most ticker deliveries to the monitor goroutine
MaxLatency == 1      \* most ticks one read of the underlying source takes
CopyBufLen == 3      \* io.Copy's buffer (32 KiB in the library), scaled down
BufioSize  == 2      \* bufio.Reader's buffer (4096 in the library), scaled down
MaxLines   == 2      \* most lines of a listing
MaxLineLen == 3      \* most characters of one listing line
MaxTokenSize == 3    \* bufio.MaxScanTokenSize (64 KiB in the library), scaled down

\* time.Second, in model ticks of 10 ms
Second == 100

\* values of --limit that are tried
Limits == {-1, 0, 5, 20}

\* first response lines the server may send (without the final newline)
SizeLines ==
    { <<>>, <<"0">>, <<"2">>, <<"2", "0">>, <<"-", "2">>, <<"x">>, <<"2", "x">> }

\* ----------------------------------------------------------------- helpers
Min(a, b) == IF a < b THEN a ELSE b
Max(a, b) == IF a > b THEN a ELSE b

Take(s, n) == SubSeq(s, 1, n)
Drop(s, n) == SubSeq(s, n + 1, Len(s))

Payload(n) == [i \in 1..n |-> i]

\* what a file of the destination's name holds before the run, if there is one
OldContent == <<0>>

\* sequences over S of length at most n
SeqUpTo(S, n) == UNION {[1..k -> S] : k \in 0..n}

\* characters of listing lines; the newline only ends a line
LineChars == {"a", "b", "\r"}
Lines == SeqUpTo(LineChars, MaxLineLen)

RECURSIVE Flatten(_)
\* the bytes of a listing: every line followed by a newline
Flatten(ls) ==
    IF ls = <<>> THEN <<>> ELSE Head(ls) \o <<"\n">> \o Flatten(Tail(ls))

\* ---------------------------------------------------- fmt.Sscanf(line, "%d")
Digits == {"0", "1", "2", "3", "4", "5", "6", "7", "8", "9"}

DigitVal(c) ==
    CASE c = "0" -> 0 [] c = "1" -> 1 [] c = "2" -> 2 [] c = "3" -> 3
      [] c = "4" -> 4 [] c = "5" -> 5 [] c = "6" -> 6 [] c = "7" -> 7
      [] c = "8" -> 8 [] c = "9" -> 9

RECURSIVE DigitPrefixLen(_)
\* number of leading decimal digits of s
DigitPrefixLen(s) ==
    IF s = <<>> \/ s[1] \notin Digits THEN 0 ELSE 1 + DigitPrefixLen(Tail(s))

RECURSIVE DecimalValue(_, _)
\* value of the digit string s, acc being the value of the digits already read
DecimalValue(s, acc) ==
    IF s = <<>> THEN acc ELSE DecimalValue(Tail(s), acc * 10 + DigitVal(s[1]))

\* The %d verb: an optional sign, then at least one digit; scanning stops at
\* the first character that is no digit.  Without a digit the scan fails and
\* the operand is not assigned.
Sscanf(line) ==
    LET neg  == line # <<>> /\ line[1] = "-"
        rest == IF neg THEN Tail(line) ELSE line
        k    == DigitPrefixLen(rest)
        v    == DecimalValue(Take(rest, k), 0)
    IN  IF k = 0 THEN [ok |-> FALSE, val |-> 0]
        ELSE [ok |-> TRUE, val |-> IF neg THEN 0 - v ELSE v]

\* main ignores Sscanf's results: totalSize keeps its zero value on failure
ParseTotalSize(line) == IF Sscanf(line).ok THEN Sscanf(line).val ELSE 0

\* --------------------------------------------------------------- variables
VARIABLES
    \* what the server does (fixed by Init)
    sizeLine,     \* characters of the first response line
    hasLine,      \* FALSE: the stream ends before a newline arrives
    endKind,      \* how the stream ends after the payload: "EOF" or "err"
    limit,        \* the --limit flag
    cmd,          \* "get" or "ls"; "call" for direct calls of rateLimitedReader.Read
    payload,      \* get: all the bytes the server sends after the size line
    listing,      \* ls: the newline-terminated lines the server writes
    tail,         \* ls: what the server writes after the last newline
    \* byte source
    wire,         \* payload bytes the stream has not delivered yet
    bufd,         \* payload bytes held in sizeReader's buffer
    \* main goroutine
    pc,           \* position in main
    sent,         \* the command line has been written to the stream
    exited,       \* the process has terminated
    exitCode,
    donePrinted,  \* the download-complete message has been printed
    \* resources
    streamOpen, outOpen, fileExists, file,
    created,      \* os.Create has succeeded in this run
    \* ProgressReader
    totalSize, readBytes, lastBytes,
    \* monitor goroutine
    mpc, diff, ticks, status,
    \* rateLimitedReader and the clock
    rl, now,
    tStart,       \* clock at the start of the first throttled Read (-1: none)
    delivered,    \* bytes returned by throttled Reads so far
    callLen,      \* len(p) of the last call of rateLimitedReader.Read
    req,          \* len(p) that call passed to the underlying source
    slept,        \* how long that call slept
    \* io.Copy
    cpc, chunk, er, copyErr,
    \* ls
    printed,      \* the lines printed so far
    scanErr       \* scanner.Err()

envVars  == <<sizeLine, hasLine, endKind, limit, cmd, payload, listing, tail>>
srcVars  == <<wire, bufd>>
mainVars == <<pc, sent, exited, exitCode, donePrinted>>
resVars  == <<streamOpen, outOpen, fileExists, file, created>>
prVars   == <<totalSize, readBytes>>
monVars  == <<mpc, diff, ticks, status, lastBytes>>
rlVars   == <<rl, now, tStart, delivered>>
copyVars == <<cpc, chunk, er, copyErr>>
callVars == <<callLen, req, slept>>
lsVars   == <<printed, scanErr>>

vars == <<envVars, srcVars, mainVars, resVars, prVars, monVars, rlVars, copyVars,
          callVars, lsVars>>

\* the zero value of a rateLimitedReader that was never constructed
NoRL == [limit |-> 0, lastRead |-> 0, byteCount |-> 0]

\* what every run starts from, whatever the command and the server
InitProgram ==
    /\ bufd = <<>>
    /\ pc = "send" /\ sent = FALSE /\ exited = FALSE /\ exitCode = 0
    /\ donePrinted = FALSE
    /\ streamOpen = TRUE /\ outOpen = FALSE /\ created = FALSE
    /\ totalSize = 0 /\ readBytes = 0 /\ lastBytes = 0
    /\ mpc = "off" /\ diff = 0 /\ ticks = 0 /\ status = <<>>
    /\ rl = NoRL /\ now = 1 /\ tStart = -1 /\ delivered = 0
    /\ callLen = 0 /\ req = 0 /\ slept = 0
    /\ cpc = "idle" /\ chunk = <<>> /\ er = "nil" /\ copyErr = "nil"
    /\ printed = <<>> /\ scanErr = "nil"

\* get <name>: a size line (or none), a payload, and maybe an old file
InitGet ==
    /\ cmd = "get"
    /\ sizeLine \in SizeLines
    /\ hasLine \in BOOLEAN
    /\ endKind \in {"EOF", "err"}
    /\ limit \in Limits
    /\ \E n \in 0..MaxPayload :
          payload = IF hasLine THEN Payload(n) ELSE <<>>
    /\ wire = payload
    /\ (~hasLine) => sizeLine = <<>>
    /\ fileExists \in BOOLEAN
    /\ file = IF fileExists THEN OldContent ELSE <<>>
    /\ listing = <<>> /\ tail = <<>>
    /\ InitProgram

\* ls: the lines of the listing, then the end of the stream
InitLs ==
    /\ cmd = "ls"
    /\ listing \in SeqUpTo(Lines, MaxLines)
    /\ tail \in {<<>>, <<"a">>}
    /\ wire = Flatten(listing) \o tail
    /\ endKind \in {"EOF", "err"}
    /\ limit = 0
    /\ sizeLine = <<>> /\ hasLine = TRUE /\ payload = <<>>
    /\ fileExists = FALSE /\ file = <<>>
    /\ InitProgram

Init == InitGet \/ InitLs


\* ------------------------------------------------------------- byte source
\* stream.Read(p) with len(p) = m, w being the payload not yet delivered:
\* some non-empty prefix of what is left, or the end of the stream.
StreamRead(w, m) ==
    IF w = <<>>
    THEN {[data |-> <<>>, err |-> endKind, wire |-> <<>>]}
    ELSE {[data |-> Take(w, k), err |-> "nil", wire |-> Drop(w, k)] :
            k \in 1..Min(m, Len(w))}

\* BufioRead with the stream read directly, past what sizeReader holds
BufioReadBypassesBuffer(b, w, m) ==
    {[data |-> o.data, err |-> o.err, bufd |-> b, wire |-> o.wire] :
        o \in StreamRead(w, m)}

\* bufio.Reader.Read(p) with len(p) = m on sizeReader: buffered bytes first;
\* with an empty buffer a large p reads the stream directly, a small one
\* fills the buffer with one read of the stream and copies from it.
BufioRead(b, w, m) ==
    IF b # <<>>
    THEN {[data |-> Take(b, Min(m, Len(b))), err |-> "nil",
           bufd |-> Drop(b, Min(m, Len(b))), wire |-> w]}
    ELSE IF m >= BufioSize
    THEN {[data |-> o.data, err |-> o.err, bufd |-> <<>>, wire |-> o.wire] :
            o \in StreamRead(w, m)}
    ELSE {[data |-> Take(o.data, Min(m, Len(o.data))), err |-> o.err,
           bufd |-> Drop(o.data, Min(m, Len(o.data))), wire |-> o.wire] :
            o \in StreamRead(w, BufioSize)}

\* ------------------------------------------------- rateLimitedReader.Read
\* RLRead with the caller's buffer passed on whole
RLReadUntruncated(r, t, b, w, m, lat) ==
    IF r.limit <= 0
    THEN {[rl |-> r, now |-> t + lat, data |-> o.data, err |-> o.err,
           bufd |-> o.bufd, wire |-> o.wire, req |-> m, slept |-> 0] :
            o \in BufioRead(b, w, m)}
    ELSE
      LET last0 == IF r.lastRead = 0 THEN t ELSE r.lastRead
      IN  { LET t1           == t + lat
                timeElapsed  == t1 - last0
                expectedTime == (Len(o.data) * Second) \div r.limit
                sleep        == IF timeElapsed < expectedTime
                                THEN expectedTime - timeElapsed ELSE 0
            IN  [rl |-> [r EXCEPT !.lastRead = t1], now |-> t1 + sleep,
                 data |-> o.data, err |-> o.err,
                 bufd |-> o.bufd, wire |-> o.wire,
                 req |-> m, slept |-> sleep] :
            o \in BufioRead(b, w, m) }

\* RLRead with lastRead stamped before the limit is looked at
RLReadStampsFirst(r, t, b, w, m, lat) ==
    IF r.limit <= 0
    THEN {[rl |-> [r EXCEPT !.lastRead = t], now |-> t + lat,
           data |-> o.data, err |-> o.err,
           bufd |-> o.bufd, wire |-> o.wire, req |-> m, slept |-> 0] :
            o \in BufioRead(b, w, m)}
    ELSE
      LET last0    == IF r.lastRead = 0 THEN t ELSE r.lastRead
          maxBytes == Max(1, r.limit \div 10)
          plen     == Min(m, maxBytes)
      IN  { LET t1           == t + lat
                timeElapsed  == t1 - last0
                expectedTime == (Len(o.data) * Second) \div r.limit
                sleep        == IF timeElapsed < expectedTime
                                THEN expectedTime - timeElapsed ELSE 0
            IN  [rl |-> [r EXCEPT !.lastRead = t1], now |-> t1 + sleep,
                 data |-> o.data, err |-> o.err,
                 bufd |-> o.bufd, wire |-> o.wire,
                 req |-> plen, slept |-> sleep] :
            o \in BufioRead(b, w, plen) }

\* r: the reader's fields, t: the clock at the call, b/w: the source below,
\* m: len(p), lat: the time the delegated read takes.
RLRead(r, t, b, w, m, lat) ==
    IF r.limit <= 0
    THEN {[rl |-> r, now |-> t + lat, data |-> o.data, err |-> o.err,
           bufd |-> o.bufd, wire |-> o.wire, req |-> m, slept |-> 0] :
            o \in BufioRead(b, w, m)}
    ELSE
      LET last0    == IF r.lastRead = 0 THEN t ELSE r.lastRead
          maxBytes == Max(1, r.limit \div 10)
          plen     == Min(m, maxBytes)
      IN  { LET t1           == t + lat
                timeElapsed  == t1 - last0
                expectedTime == (Len(o.data) * Second) \div r.limit
                sleep        == IF timeElapsed < expectedTime
                                THEN expectedTime - timeElapsed ELSE 0
            IN  [rl |-> [r EXCEPT !.lastRead = t1], now |-> t1 + sleep,
                 data |-> o.data, err |-> o.err,
                 bufd |-> o.bufd, wire |-> o.wire,
                 req |-> plen, slept |-> sleep] :
            o \in BufioRead(b, w, plen) }

NewRateLimitedReader(l) == [limit |-> l, lastRead |-> 0, byteCount |-> 0]

\* ------------------------------------------------------------------ main
\* fmt.Fprintln(stream, cmd)
SendCommand ==
    /\ pc = "send"
    /\ sent' = TRUE
    /\ pc' = IF cmd = "get" THEN "create" ELSE "scan"
    /\ UNCHANGED <<exited, exitCode, donePrinted>>
    /\ UNCHANGED <<envVars, srcVars, resVars, prVars, monVars, rlVars, copyVars,
                 callVars, lsVars>>

\* CreateFile opening the destination without truncating it
CreateFileKeepsContent ==
    /\ pc = "create"
    /\ \E ok \in BOOLEAN :
         IF ok
         THEN /\ outOpen' = TRUE /\ fileExists' = TRUE /\ file' = file
              /\ created' = TRUE
              /\ pc' = "readsize"
              /\ UNCHANGED <<exited, exitCode>>
         ELSE /\ pc' = "exited" /\ exited' = TRUE /\ exitCode' = 1
              /\ UNCHANGED <<outOpen, fileExists, file, created>>
    /\ UNCHANGED <<sent, donePrinted, streamOpen>>
    /\ UNCHANGED <<envVars, srcVars, prVars, monVars, rlVars, copyVars,
                 callVars, lsVars>>

\* out, err := os.Create(filename); log.Fatal on failure; defer out.Close()
CreateFile ==
    /\ pc = "create"
    /\ \E ok \in BOOLEAN :
         IF ok
         THEN /\ outOpen' = TRUE /\ fileExists' = TRUE /\ file' = <<>>
              /\ created' = TRUE
              /\ pc' = "readsize"
              /\ UNCHANGED <<exited, exitCode>>
         ELSE /\ pc' = "exited" /\ exited' = TRUE /\ exitCode' = 1
              /\ UNCHANGED <<outOpen, fileExists, file, created>>
    /\ UNCHANGED <<sent, donePrinted, streamOpen>>
    /\ UNCHANGED <<envVars, srcVars, prVars, monVars, rlVars, copyVars,
                 callVars, lsVars>>

\* sizeReader.ReadString('\n'): log.Fatalf (os.Exit(1), no deferred call
\* runs) when the stream ends before a newline; otherwise the reader is left
\* holding whatever payload arrived in the same read as the newline.
ReadSizeLine ==
    /\ pc = "readsize"
    /\ IF ~hasLine
       THEN /\ pc' = "exited" /\ exited' = TRUE /\ exitCode' = 1
            /\ UNCHANGED srcVars
       ELSE /\ \E k \in 0..Min(BufioSize - 1, Len(wire)) :
                 /\ bufd' = Take(wire, k)
                 /\ wire' = Drop(wire, k)
            /\ pc' = "setup"
            /\ UNCHANGED <<exited, exitCode>>
    /\ UNCHANGED <<sent, donePrinted>>
    /\ UNCHANGED <<envVars, resVars, prVars, monVars, rlVars, copyVars,
                 callVars, lsVars>>

\* Sscanf into totalSize, the reader chain, NewProgressReader, StartMonitor
SetupPipeline ==
    /\ pc = "setup"
    /\ totalSize' = ParseTotalSize(sizeLine)
    /\ rl' = IF limit > 0 THEN NewRateLimitedReader(limit) ELSE rl
    /\ readBytes' = 0 /\ lastBytes' = 0
    /\ mpc' = "diff"
    /\ cpc' = "read"
    /\ pc' = "copy"
    /\ UNCHANGED <<sent, exited, exitCode, donePrinted>>
    /\ UNCHANGED <<diff, ticks, status, now, tStart, delivered, chunk, er, copyErr>>
    /\ UNCHANGED <<envVars, srcVars, resVars,
                 callVars, lsVars>>

\* ----------------------------------------------- io.Copy(out, progressReader)
\* ProgressReader.Read, line 35: n, err := pr.r.Read(p)
PRRead ==
    /\ pc = "copy" /\ cpc = "read"
    /\ \E lat \in 0..MaxLatency :
         \E o \in IF limit > 0
                  THEN RLRead(rl, now, bufd, wire, CopyBufLen, lat)
                  ELSE {[rl |-> rl, now |-> now + lat, data |-> q.data,
                         err |-> q.err, bufd |-> q.bufd, wire |-> q.wire,
                         req |-> req, slept |-> slept] :
                          q \in BufioRead(bufd, wire, CopyBufLen)} :
           /\ chunk' = o.data /\ er' = o.err
           /\ bufd' = o.bufd /\ wire' = o.wire
           /\ rl' = o.rl /\ now' = o.now
           /\ tStart' = IF limit > 0 /\ tStart = -1 THEN now ELSE tStart
           /\ delivered' = IF limit > 0 THEN delivered + Len(o.data) ELSE delivered
           /\ req' = o.req /\ slept' = o.slept
    /\ callLen' = IF limit > 0 THEN CopyBufLen ELSE callLen
    /\ cpc' = "count"
    /\ UNCHANGED copyErr
    /\ UNCHANGED <<envVars, mainVars, resVars, prVars, monVars, lsVars>>

\* where io.Copy goes once the bytes of a read are dealt with
AfterChunk(e) == IF e # "nil" THEN "done" ELSE "read"

\* PRCount adding the length of the caller's buffer
PRCountWholeBuffer ==
    /\ pc = "copy" /\ cpc = "count"
    /\ readBytes' = readBytes + CopyBufLen
    /\ cpc' = IF Len(chunk) > 0 THEN "write" ELSE AfterChunk(er)
    /\ UNCHANGED <<totalSize, chunk, er, copyErr>>
    /\ UNCHANGED <<envVars, srcVars, mainVars, resVars, monVars, rlVars,
                 callVars, lsVars>>

\* ProgressReader.Read, lines 36-37: pr.readBytes += int64(n); return n, err
PRCount ==
    /\ pc = "copy" /\ cpc = "count"
    /\ readBytes' = readBytes + Len(chunk)
    /\ cpc' = IF Len(chunk) > 0 THEN "write" ELSE AfterChunk(er)
    /\ UNCHANGED <<totalSize, chunk, er, copyErr>>
    /\ UNCHANGED <<envVars, srcVars, mainVars, resVars, monVars, rlVars,
                 callVars, lsVars>>

\* io.Copy: nw, ew := dst.Write(buf[0:nr]); a write error ends the loop
CopyWrite ==
    /\ pc = "copy" /\ cpc = "write"
    /\ \E ok \in BOOLEAN :
         IF ok
         THEN /\ file' = file \o chunk
              /\ cpc' = AfterChunk(er)
              /\ UNCHANGED copyErr
         ELSE /\ cpc' = "done"
              /\ copyErr' = "write"
              /\ UNCHANGED file
    /\ UNCHANGED <<streamOpen, outOpen, fileExists, created, chunk, er>>
    /\ UNCHANGED <<envVars, srcVars, mainVars, prVars, monVars, rlVars,
                 callVars, lsVars>>

\* io.Copy returns; main drops its results
CopyReturn ==
    /\ pc = "copy" /\ cpc = "done"
    /\ pc' = "print"
    /\ UNCHANGED <<sent, exited, exitCode, donePrinted>>
    /\ UNCHANGED <<envVars, srcVars, resVars, prVars, monVars, rlVars, copyVars,
                 callVars, lsVars>>

\* fmt.Println("檔案下載完成:", filename)
PrintDone ==
    /\ pc = "print"
    /\ donePrinted' = TRUE
    /\ pc' = "return"
    /\ UNCHANGED <<sent, exited, exitCode>>
    /\ UNCHANGED <<envVars, srcVars, resVars, prVars, monVars, rlVars, copyVars,
                 callVars, lsVars>>

\* main returns: the deferred out.Close() runs and the process ends with 0
Return ==
    /\ pc = "return"
    /\ outOpen' = FALSE
    /\ pc' = "exited" /\ exited' = TRUE /\ exitCode' = 0
    /\ UNCHANGED <<sent, donePrinted, streamOpen, fileExists, file, created>>
    /\ UNCHANGED <<envVars, srcVars, prVars, monVars, rlVars, copyVars,
                 callVars, lsVars>>


\* ------------------------------------------------------------- main (ls)
\* position of the first newline of data, 0 when there is none
NewlineIndex(data) ==
    IF \E i \in 1..Len(data) : data[i] = "\n"
    THEN CHOOSE i \in 1..Len(data) :
            /\ data[i] = "\n"
            /\ \A j \in 1..(i - 1) : data[j] # "\n"
    ELSE 0

\* bufio.ScanLines' dropCR: one trailing carriage return is removed
DropCR(tok) ==
    IF tok # <<>> /\ tok[Len(tok)] = "\r" THEN Take(tok, Len(tok) - 1) ELSE tok

\* ScanToken with a blank line taken for the end of the listing
ScanTokenStopsAtBlank(data, end) ==
    LET i == NewlineIndex(data)
    IN  IF i > 1 /\ i <= MaxTokenSize
        THEN [ok |-> TRUE, token |-> DropCR(Take(data, i - 1)),
              rest |-> Drop(data, i), err |-> "nil"]
        ELSE IF Len(data) >= MaxTokenSize
        THEN [ok |-> FALSE, token |-> <<>>, rest |-> data, err |-> "ErrTooLong"]
        ELSE [ok |-> data # <<>> /\ i = 0, token |-> DropCR(data), rest |-> <<>>,
              err |-> IF end = "err" THEN "err" ELSE "nil"]

\* One call of scanner.Scan() with bufio.ScanLines, data being what the
\* stream still holds and end how the stream ends.  A line whose newline is
\* within the first MaxTokenSize bytes is the token; when the buffer is full
\* without a newline the scan stops with ErrTooLong; at the end of the
\* stream what is left, if anything, is a last token.
ScanToken(data, end) ==
    LET i == NewlineIndex(data)
    IN  IF i # 0 /\ i <= MaxTokenSize
        THEN [ok |-> TRUE, token |-> DropCR(Take(data, i - 1)),
              rest |-> Drop(data, i), err |-> "nil"]
        ELSE IF Len(data) >= MaxTokenSize
        THEN [ok |-> FALSE, token |-> <<>>, rest |-> data, err |-> "ErrTooLong"]
        ELSE [ok |-> data # <<>>, token |-> DropCR(data), rest |-> <<>>,
              err |-> IF end = "err" THEN "err" ELSE "nil"]

\* for scanner.Scan() { fmt.Println(scanner.Text()) }: one turn of the loop,
\* or its end; scanner.Err() is never looked at
ScanLine ==
    /\ pc = "scan"
    /\ LET o == ScanToken(wire, endKind)
       IN  /\ wire' = o.rest
           /\ scanErr' = o.err
           /\ IF o.ok
              THEN /\ printed' = Append(printed, o.token)
                   /\ pc' = "scan"
              ELSE /\ pc' = "return"
                   /\ UNCHANGED printed
    /\ UNCHANGED <<bufd, sent, exited, exitCode, donePrinted>>
    /\ UNCHANGED <<envVars, resVars, prVars, monVars, rlVars, copyVars, callVars>>

\* ------------------------------------------ monitor goroutine (StartMonitor)
\* pr.readBytes is a plain int64 field read here and written by the copy
\* loop with nothing ordering the two.  Each of the four reads a tick makes
\* is a step of its own and returns the value the field holds at that moment,
\* so the copy loop's write may fall between any two of them.

\* a/b rounded to the nearest integer, for a >= 0 and b # 0
RoundDiv(a, b) ==
    IF b > 0 THEN (2 * a + b) \div (2 * b)
    ELSE 0 - ((2 * a - b) \div (0 - 2 * b))

\* float64(readBytes) / float64(totalSize) * 100 as "%.2f" prints it, in
\* hundredths of a percent; a zero divisor gives NaN (0/0) or +Inf, no panic
Percent(rb, total) ==
    IF total = 0
    THEN [tag |-> IF rb = 0 THEN "NaN" ELSE "+Inf", pct |-> 0]
    ELSE [tag |-> "num", pct |-> RoundDiv(rb * 10000, total)]

\* the line printed every tick, and the literal "100.00% - completed" line
TickLine(p, d) == [kind |-> "tick", tag |-> p.tag, pct |-> p.pct, diff |-> d]
CompletedLine  == [kind |-> "completed", tag |-> "num", pct |-> 10000, diff |-> 0]

\* lines 43-46: a tick arrives; diff := pr.readBytes - pr.lastBytes
MonDiff ==
    /\ mpc = "diff" /\ ~exited /\ ticks < MaxTicks
    /\ diff' = readBytes - lastBytes
    /\ ticks' = ticks + 1
    /\ mpc' = "percent"
    /\ UNCHANGED <<status, lastBytes>>
    /\ UNCHANGED <<envVars, srcVars, mainVars, resVars, prVars, rlVars, copyVars,
                 callVars, lsVars>>

\* lines 48-51: percent from a second read of pr.readBytes; Printf
MonPercent ==
    /\ mpc = "percent" /\ ~exited
    /\ status' = Append(status, TickLine(Percent(readBytes, totalSize), diff))
    /\ mpc' = "store"
    /\ UNCHANGED <<diff, ticks, lastBytes>>
    /\ UNCHANGED <<envVars, srcVars, mainVars, resVars, prVars, rlVars, copyVars,
                 callVars, lsVars>>

\* lines 53-54: pr.lastBytes = pr.readBytes
MonStore ==
    /\ mpc = "store" /\ ~exited
    /\ lastBytes' = readBytes
    /\ mpc' = "test"
    /\ UNCHANGED <<diff, ticks, status>>
    /\ UNCHANGED <<envVars, srcVars, mainVars, resVars, prVars, rlVars, copyVars,
                 callVars, lsVars>>

\* lines 56-60: if pr.readBytes >= pr.totalSize, stop the ticker, print the
\* completed line and leave the loop; otherwise wait for the next tick
MonTest ==
    /\ mpc = "test" /\ ~exited
    /\ IF readBytes >= totalSize
       THEN /\ status' = Append(status, CompletedLine)
            /\ mpc' = "done"
       ELSE /\ mpc' = "diff"
            /\ UNCHANGED status
    /\ UNCHANGED <<diff, ticks, lastBytes>>
    /\ UNCHANGED <<envVars, srcVars, mainVars, resVars, prVars, rlVars, copyVars,
                 callVars, lsVars>>

\* ------------------------------------------------------------ specification
Next ==
    \/ SendCommand
    \/ CreateFile
    \/ ReadSizeLine
    \/ SetupPipeline
    \/ PRRead
    \/ PRCount
    \/ CopyWrite
    \/ CopyReturn
    \/ PrintDone
    \/ Return
    \/ MonDiff
    \/ MonPercent
    \/ MonStore
    \/ MonTest
    \/ ScanLine

Spec == Init /\ [][Next]_vars

\* ------------------------------- rateLimitedReader.Read called on its own
\* a reader built by NewRateLimitedReader with any limit, over a source that
\* holds some bytes, some of them already buffered
InitCall ==
    /\ cmd = "call"
    /\ limit \in Limits
    /\ rl = NewRateLimitedReader(limit)
    /\ endKind \in {"EOF", "err"}
    /\ \E n \in 0..MaxPayload :
          /\ payload = Payload(n)
          /\ \E k \in 0..Min(BufioSize - 1, n) :
                /\ bufd = Take(payload, k)
                /\ wire = Drop(payload, k)
    /\ sizeLine = <<>> /\ hasLine = TRUE /\ listing = <<>> /\ tail = <<>>
    /\ pc = "call" /\ sent = FALSE /\ exited = FALSE /\ exitCode = 0
    /\ donePrinted = FALSE
    /\ streamOpen = TRUE /\ outOpen = FALSE /\ created = FALSE
    /\ fileExists = FALSE /\ file = <<>>
    /\ totalSize = 0 /\ readBytes = 0 /\ lastBytes = 0
    /\ mpc = "off" /\ diff = 0 /\ ticks = 0 /\ status = <<>>
    /\ now = 1 /\ tStart = -1 /\ delivered = 0
    /\ callLen = 0 /\ req = 0 /\ slept = 0
    /\ cpc = "idle" /\ chunk = <<>> /\ er = "nil" /\ copyErr = "nil"
    /\ printed = <<>> /\ scanErr = "nil"

\* one call rl.Read(p) with any len(p) > 0, until the source has ended
RLCall ==
    /\ pc = "call" /\ er = "nil"
    /\ \E m \in 1..CopyBufLen, lat \in 0..MaxLatency :
         \E o \in RLRead(rl, now, bufd, wire, m, lat) :
           /\ chunk' = o.data /\ er' = o.err
           /\ bufd' = o.bufd /\ wire' = o.wire
           /\ rl' = o.rl /\ now' = o.now
           /\ callLen' = m /\ req' = o.req /\ slept' = o.slept
           /\ tStart' = IF rl.limit > 0 /\ tStart = -1 THEN now ELSE tStart
           /\ delivered' = IF rl.limit > 0 THEN delivered + Len(o.data) ELSE delivered
    /\ UNCHANGED <<cpc, copyErr>>
    /\ UNCHANGED <<envVars, mainVars, resVars, prVars, monVars, lsVars>>

\* the runs of main together with the direct calls
SpecCalls == (Init \/ InitCall) /\ [][Next \/ RLCall]_vars


\* ------------------------------------------------------------------ claims
\* the first response line is a non-negative decimal integer and a newline
ValidSizeLine ==
    /\ cmd = "get"
    /\ hasLine
    /\ sizeLine # <<>>
    /\ \A i \in 1..Len(sizeLine) : sizeLine[i] \in Digits

\* the monitor is at one of its reads of pr.readBytes
MonitorReading == mpc \in {"percent", "store", "test"} /\ ~exited

\* the copy loop is at its write of pr.readBytes
CopyWriting == pc = "copy" /\ cpc = "count"

\* the stream ended by itself, and no write to the destination failed
StreamEnded == cpc = "done" /\ copyErr = "nil"

HundredLines == {i \in 1..Len(status) : status[i].tag = "num" /\ status[i].pct = 10000}

\* C1: with limit > 0, whenever throttled Reads have delivered B bytes, the
\* time from the start of the first Read to the return of the last one is at
\* least B / limit seconds, less one slice of a tenth of a second.
C1_ThrottleKeepsRate ==
    (limit > 0 /\ tStart # -1) =>
        (now - tStart + Second \div 10) * limit >= delivered * Second

\* C2: when the stream ends after fewer payload bytes than the declared
\* total, the download-complete message is not printed and the exit status
\* is not zero.
C2_TruncationIsAnError ==
    (ValidSizeLine /\ StreamEnded /\ er = "EOF" /\ readBytes < totalSize) =>
        /\ ~donePrinted
        /\ exited => exitCode # 0

\* C3: once the declared total is known, the running count and the number of
\* bytes written to the destination never exceed it.
C3_CountWithinDeclaredTotal ==
    (ValidSizeLine /\ mpc # "off") =>
        /\ readBytes <= totalSize
        /\ Len(file) <= totalSize

\* C4: when the size line is missing or is no non-negative decimal integer,
\* the command fails: nothing is copied, the reporter is not started, the
\* download-complete message is not printed and the exit status is not zero.
C4_BadSizeLineFails ==
    (cmd = "get" /\ ~ValidSizeLine) =>
        /\ created => file = <<>>
        /\ readBytes = 0
        /\ mpc = "off"
        /\ ~donePrinted
        /\ exited => exitCode # 0

\* C5: on every way out of the copy loop the pipeline retires the reporter:
\* when the command has ended after the copy loop, the reporter has left its
\* sampling loop.
C5_ReporterRetiredOnExit ==
    (ValidSizeLine /\ exited /\ cpc = "done") => mpc = "done"

\* C6: with a declared total of 0 the reporter completes without using a
\* timer period, never prints a percentage computed with the zero divisor,
\* and has retired when the command ends.
C6_ZeroTotalCompletesAtOnce ==
    (ValidSizeLine /\ mpc # "off" /\ totalSize = 0) =>
        /\ ticks = 0
        /\ \A i \in 1..Len(status) : status[i].tag = "num"
        /\ exited => mpc = "done"

\* C7: on a successful download (the stream ends after exactly the declared
\* number of bytes, here more than none) the reporter's completed line is
\* printed before the download-complete message.
C7_CompletedLineBeforeDone ==
    (ValidSizeLine /\ totalSize > 0 /\ StreamEnded /\ er = "EOF"
       /\ readBytes = totalSize /\ donePrinted) =>
        \E i \in 1..Len(status) : status[i].kind = "completed"

\* C8: during a download with a positive declared total and no more payload
\* than declared, the percentages of the status lines never decrease and
\* never exceed 100, and 100 is reported exactly once, not before the count
\* has reached the declared total.
C8_PercentRisesTo100Once ==
    (ValidSizeLine /\ totalSize > 0 /\ readBytes + Len(bufd) + Len(wire) <= totalSize) =>
        /\ \A i \in 1..Len(status) : status[i].tag = "num" /\ status[i].pct <= 10000
        /\ \A i, j \in 1..Len(status) : i < j => status[i].pct <= status[j].pct
        /\ Cardinality(HundredLines) <= 1
        /\ HundredLines # {} => readBytes >= totalSize
        /\ mpc = "done" => Cardinality(HundredLines) = 1

\* C9: every access to the running count is synchronized: the reporter is
\* never at a read of the count while the copy loop is at its write of it.
C9_CountAccessSynchronized ==
    ValidSizeLine => ~(CopyWriting /\ MonitorReading)

\* C10: no command that has acquired the destination file and the stream
\* ends while either of them is open.
C10_ResourcesReleasedOnExit ==
    (exited /\ created) => (~outOpen /\ ~streamOpen)

\* C11: when a write to the destination file fails during the copy loop,
\* the download-complete message is not printed and the exit status is not
\* zero.
C11_WriteFailureIsFatal ==
    (ValidSizeLine /\ copyErr = "write") =>
        /\ ~donePrinted
        /\ exited => exitCode # 0

IsPrefix(a, b) == Len(a) <= Len(b) /\ a = Take(b, Len(a))

\* the lines the server writes: the terminated ones, then an unterminated one
SentLines == listing \o (IF tail # <<>> THEN <<tail>> ELSE <<>>)

SentLinesWithoutCR == [i \in 1..Len(SentLines) |-> DropCR(SentLines[i])]

\* every line fits the scanner's buffer
LinesFit == \A i \in 1..Len(SentLines) : Len(SentLines[i]) < MaxTokenSize

\* C12 as claimed: in listing mode the client prints exactly the lines the
\* server wrote, in order, each once, up to the end of the stream.
C12_ListingRelayedExactly ==
    cmd = "ls" =>
        /\ IsPrefix(printed, SentLines)
        /\ (exited /\ endKind = "EOF") => printed = SentLines

\* C12 as amended: when every line is shorter than the scanner's token limit,
\* the client prints the lines the server wrote, each without its trailing
\* carriage return if it has one, in order, each once, up to the end of the
\* stream.
C12_ListingRelayedWithoutCR ==
    (cmd = "ls" /\ LinesFit) =>
        /\ IsPrefix(printed, SentLinesWithoutCR)
        /\ (exited /\ endKind = "EOF") => printed = SentLinesWithoutCR

\* a listing of two different lines, one with a carriage return and one
\* empty, has been printed to its end
C12_Witness ==
    /\ cmd = "ls" /\ LinesFit /\ exited /\ endKind = "EOF"
    /\ Len(listing) = 2 /\ listing[1] = <<"a", "\r">> /\ listing[2] = <<>>
    /\ tail # <<>>
    /\ Len(printed) = 3

\* C13: when the listing stops for another reason than a clean end of the
\* stream, the command ends with a non-zero exit status.
C13_ListingErrorIsFatal ==
    (cmd = "ls" /\ exited /\ scanErr # "nil") => exitCode # 0

\* the bytes of the read that io.Copy is still dealing with
Pending == IF cpc \in {"count", "write"} THEN chunk ELSE <<>>

\* C14: while no write to the destination fails, the bytes written are a
\* prefix of the payload in its order, and they, the bytes in flight and the
\* bytes still in the reader's buffer and on the stream are the payload with
\* nothing skipped or repeated, with and without the throttled source.
C14_FileIsPrefixOfPayload ==
    (cmd = "get" /\ created /\ copyErr = "nil") =>
        /\ IsPrefix(file, payload)
        /\ file \o Pending \o bufd \o wire = payload

\* bytes reached the file through the throttled source while the reader that
\* read the size line still holds payload
C14_Witness ==
    /\ cmd = "get" /\ limit > 0 /\ copyErr = "nil"
    /\ file # <<>> /\ bufd # <<>>

\* a tenth of the limit, and at least one byte
SliceBytes(l) == IF l \div 10 >= 1 THEN l \div 10 ELSE 1

\* C15: with limit > 0 a call of rateLimitedReader.Read asks the underlying
\* source for at most max(1, limit / 10) bytes and returns at most that
\* many, whatever the size of the caller's buffer.
C15_ReadWithinSlice ==
    (rl.limit > 0 /\ callLen > 0) =>
        /\ req <= SliceBytes(rl.limit)
        /\ req <= callLen
        /\ Len(chunk) <= SliceBytes(rl.limit)

\* a call with a buffer of 3 at limit 5, where limit / 10 is 0, read 1 byte
C15_Witness ==
    /\ cmd = "call" /\ rl.limit = 5 /\ callLen = 3
    /\ req = 1 /\ Len(chunk) = 1

\* C16, calls: with a non-positive limit a call passes the caller's buffer
\* on whole, does not sleep and leaves the reader's fields as they were built
C16_PassThroughState ==
    (rl.limit <= 0 /\ callLen > 0) =>
        /\ req = callLen
        /\ slept = 0
        /\ rl = NewRateLimitedReader(limit)

\* C16, calls: the bytes and the error such a call returns are those of one
\* read of the underlying source with the caller's buffer
C16_PassThroughStep ==
    (pc = "call" /\ rl.limit <= 0 /\ callLen' # callLen) =>
        /\ rl' = rl
        /\ \E lat \in 0..MaxLatency : now' = now + lat
        /\ \E o \in BufioRead(bufd, wire, callLen') :
             /\ chunk' = o.data /\ er' = o.err
             /\ bufd' = o.bufd /\ wire' = o.wire

\* C16, main: with a non-positive limit no rateLimitedReader is built and
\* none is ever called
C16_NotInChain ==
    (cmd # "call" /\ limit <= 0) =>
        /\ rl = NoRL
        /\ callLen = 0 /\ delivered = 0 /\ tStart = -1

\* C16: with a non-positive limit throttling is a pure pass-through, and the
\* pipeline leaves the throttled source out of the chain.
C16_NoThrottlingWithoutLimit ==
    /\ [](C16_PassThroughState /\ C16_NotInChain)
    /\ [][C16_PassThroughStep]_vars

\* a call with a buffer of 3 and limit -1 returned 3 bytes
C16_Witness ==
    /\ cmd = "call" /\ rl.limit = -1 /\ callLen = 3 /\ Len(chunk) = 3

\* bytes returned by the wrapped Read and not yet added to the count
Uncounted == IF cpc = "count" THEN Len(chunk) ELSE 0

\* C17, count: the running count is the number of payload bytes the wrapped
\* source has returned so far
C17_CountIsSumOfReads ==
    cmd = "get" =>
        readBytes + Uncounted + Len(bufd) + Len(wire) = Len(payload)

\* C17, step: the count never falls, it changes only in ProgressReader.Read
\* and then by the length of what the wrapped Read returned, and Read hands
\* that result and its error on unchanged
C17_CountStep ==
    /\ readBytes' >= readBytes
    /\ readBytes' # readBytes =>
         /\ pc = "copy" /\ cpc = "count"
         /\ readBytes' = readBytes + Len(chunk)
    /\ (pc = "copy" /\ cpc = "count" /\ cpc' # cpc) =>
         /\ chunk' = chunk /\ er' = er
         /\ readBytes' = readBytes + Len(chunk)

\* C17: ProgressReader.Read returns the count and error of the wrapped Read,
\* and the running count is the sum of the counts returned so far: it never
\* decreases and nothing but Read changes it.
C17_ReadCountsWhatItReturns ==
    /\ []C17_CountIsSumOfReads
    /\ [][C17_CountStep]_vars

\* three bytes counted over more than one throttled Read
C17_Witness ==
    /\ cmd = "get" /\ limit = 5 /\ readBytes = 3 /\ cpc = "done"

RECURSIVE SumDiffs(_)
SumDiffs(lines) ==
    IF lines = <<>> THEN 0 ELSE Head(lines).diff + SumDiffs(Tail(lines))

\* C18: between ticks the per-tick differences printed so far add up to the
\* stored last sample, so no byte counted by the copy loop is left out of
\* every speed computation.
C18_DiffsAddUpToLastSample ==
    (ValidSizeLine /\ mpc \in {"diff", "test", "done"}) =>
        SumDiffs(status) = lastBytes

\* C19: in download mode the destination file is created, and truncated,
\* after the command is sent and before any byte of the response is read;
\* when the size line then cannot be read the run ends with an existing,
\* empty destination file.
C19_FileCreatedBeforeResponse ==
    cmd = "get" =>
        /\ created => sent
        /\ ~created => (wire = payload /\ bufd = <<>> /\ pc \in {"send", "create", "exited"})
        /\ (created /\ pc = "readsize") => (fileExists /\ file = <<>>)
        /\ (exited /\ created /\ ~hasLine) =>
              (fileExists /\ file = <<>> /\ exitCode = 1)

\* the response ended before a size line and the file left behind is empty
C19_Witness ==
    /\ cmd = "get" /\ exited /\ created /\ ~hasLine
    /\ fileExists /\ file = <<>>

====
